---- MODULE Spec2Model ----
(***************************************************************************)
(* tlox: the Environment chain (environment.ts), the static Resolver       *)
(* (resolver.ts) and the REPL line handler (repl.ts).                      *)
(*                                                                         *)
(* SpecEnv  : a heap of Environment frames driven by define/get/assign.    *)
(* SpecRes  : the Resolver walking a program that is produced node by node *)
(*            in the depth-first order of the visitor.                     *)
(* SpecRun  : the same walk with the Interpreter of spec section 4.3       *)
(*            executing each statement the Resolver has accepted.          *)
(* SpecRepl : the REPL line handler running the lines that arrive.         *)
(***************************************************************************)
EXTENDS Integers, Sequences, FiniteSets, TLC

VARIABLES
  frames,           \* heap of Environment objects; frames[1] is interpreter.globals
  envOut,           \* outcome of the last Environment call
  scopes,           \* Resolver.scopes
  currentFunction,  \* Resolver.currentFunction
  currentClass,     \* Resolver.currentClass
  kont,             \* open visitor calls (the JS call stack of the Resolver) with their saved locals
  lexNames,         \* names declared so far in each open lexical scope of the program text
  trace,            \* what the handlers called by the last step did, in call order
  hadError,         \* the diagnostic sink's had-error flag
  threw,            \* an exception left Resolver.resolve
  env,              \* Interpreter: the current Environment (a heap index)
  scopeFrame,       \* the frame the Interpreter made for each open lexical scope (0: not made yet)
  closures,         \* function values, by the frame and name they are bound to
  decl,             \* the function declaration whose body is being resolved
  lookups,          \* the variable lookups the Interpreter made in the last step
  arrived,          \* REPL: the lines readline has emitted or will emit, in arrival order
  handled,          \* REPL: the number of 'line' events whose handler was entered
  events            \* REPL: what the handlers did, in order

envVars == <<frames, envOut>>
resVars == <<scopes, currentFunction, currentClass, kont, lexNames, trace, threw>>
intVars == <<env, scopeFrame, closures, decl, lookups>>
replVars == <<arrived, handled, events>>
replIdle == <<envOut, scopes, currentFunction, currentClass, kont, lexNames, trace,
              env, scopeFrame, closures, decl, lookups>>
vars == <<frames, envOut, scopes, currentFunction, currentClass, kont, lexNames, trace,
          hadError, threw, env, scopeFrame, closures, decl, lookups,
          arrived, handled, events>>

----------------------------------------------------------------------------
(* Bounds *)

MaxFrames == 3      \* Environment objects on the heap
MaxScopes == 3      \* length of Resolver.scopes

(* Identifier lexemes. "toString" is a property every plain JS object
   inherits from Object.prototype. *)
Lexemes == {"a", "b", "toString"}
ProtoNames == {"toString"}
(* The names the program declares (let, fn, class, parameters). *)
DeclNames == {"a", "b"}
(* The names the Environment calls are given, and the (name, value) pairs
   define and assign are given. *)
EnvNames == {"a", "toString"}
Writes == {<<"a", "v1">>, <<"a", "v2">>, <<"toString", "v1">>}

(* Runtime values: JS undefined and the inherited Object.prototype member;
   "v1" and "v2" are two ordinary values. *)
Undefined == "undefined"
ProtoValue == "proto"

----------------------------------------------------------------------------
(* Environment (src/unnamed/part_000) *)

(* A frame is [values, enclosing]: values is a function whose DOMAIN is the
   set of own properties of this.values; enclosing is a heap index, 0 = null. *)
NoValues == [n \in {} |-> Undefined]

NewEnvironment(fs, enclosing) ==
  Append(fs, [values |-> NoValues, enclosing |-> enclosing])

(* `name in this.values`: own properties and the ones inherited from
   Object.prototype. *)
HasIn(values, name) == name \in DOMAIN values \/ name \in ProtoNames

(* this.values[name] *)
ReadValue(values, name) ==
  IF name \in DOMAIN values THEN values[name]
  ELSE IF name \in ProtoNames THEN ProtoValue
  ELSE Undefined

EnvDefine(fs, e, name, value) ==
  [fs EXCEPT ![e].values = (name :> value) @@ fs[e].values]

RECURSIVE EnvGet(_, _, _)
EnvGet(fs, e, name) ==
  IF HasIn(fs[e].values, name)
  THEN [threw |-> FALSE, value |-> ReadValue(fs[e].values, name), frame |-> e]
  ELSE IF fs[e].enclosing # 0
  THEN EnvGet(fs, fs[e].enclosing, name)
  ELSE [threw |-> TRUE, value |-> Undefined, frame |-> 0]

RECURSIVE EnvAssign(_, _, _, _)
EnvAssign(fs, e, name, value) ==
  IF HasIn(fs[e].values, name)
  THEN [threw |-> FALSE, frames |-> EnvDefine(fs, e, name, value), frame |-> e]
  ELSE IF fs[e].enclosing # 0
  THEN EnvAssign(fs, fs[e].enclosing, name, value)
  ELSE [threw |-> TRUE, frames |-> fs, frame |-> 0]

(* The frames of e's chain, innermost first. *)
RECURSIVE Chain(_, _)
Chain(fs, e) ==
  IF e = 0 THEN <<>> ELSE <<e>> \o Chain(fs, fs[e].enclosing)

InChain(fs, e, o) == \E i \in DOMAIN Chain(fs, e) : Chain(fs, e)[i] = o

NoCall == [op |-> "none", env |-> 0, name |-> "", value |-> Undefined,
           threw |-> FALSE, frame |-> 0]

EnvInit ==
  /\ frames = NewEnvironment(<<>>, 0)
  /\ envOut = NoCall

Construct ==
  /\ Len(frames) < MaxFrames
  /\ \E enclosing \in 0..Len(frames) :
       frames' = NewEnvironment(frames, enclosing)
  /\ envOut' = NoCall

Define ==
  \E e \in DOMAIN frames, w \in Writes :
    /\ frames' = EnvDefine(frames, e, w[1], w[2])
    /\ envOut' = [op |-> "define", env |-> e, name |-> w[1], value |-> w[2],
                  threw |-> FALSE, frame |-> e]

Get ==
  \E e \in DOMAIN frames, name \in EnvNames :
    LET r == EnvGet(frames, e, name) IN
    /\ envOut' = [op |-> "get", env |-> e, name |-> name, value |-> r.value,
                  threw |-> r.threw, frame |-> r.frame]
    /\ UNCHANGED frames

Assign ==
  \E e \in DOMAIN frames, w \in Writes :
    LET r == EnvAssign(frames, e, w[1], w[2]) IN
    /\ frames' = r.frames
    /\ envOut' = [op |-> "assign", env |-> e, name |-> w[1], value |-> w[2],
                  threw |-> r.threw, frame |-> r.frame]

----------------------------------------------------------------------------
(* Resolver (src/src/resolver.ts) *)

MaxKont == 2        \* open visitor calls of statements that hold statements

ErrDuplicate == "Variable with this name already declare in this scope"
ErrSelfInit == "Cannot read local variable in its own initializer"
ErrThis == "Cannot use 'this' outside of a class"
ErrReturn == "Cannot return from top-level code"
ErrUndefined == "Undefined variable"

NoDepth == 0 - 1    \* interpreter.resolve was not called for the node

(* One entry of the call log of a step: handler, token lexeme, the messages
   it passed to Lox.error, the depth it passed to interpreter.resolve, whether
   an exception left it, and scopes.length when it ran. *)
Rec(op, name, errs, depth, thr, at) ==
  [op |-> op, name |-> name, errs |-> errs, depth |-> depth, threw |-> thr, at |-> at]

Threw(t) == Len(t) > 0 /\ t[Len(t)].threw

(* A scope is a Map<string, boolean>: a function from its keys to BOOLEAN. *)
EmptyScope == [n \in {} |-> FALSE]

innerScope(sc) == sc[Len(sc)]

beginScope(sc) == Append(sc, EmptyScope)

(* endScope that leaves the stack as it is. *)
endScopeNoPop(sc) == sc

endScope(sc) == SubSeq(sc, 1, Len(sc) - 1)

ScopeSet(sc, name, ready) == [sc EXCEPT ![Len(sc)] = (name :> ready) @@ sc[Len(sc)]]

(* define that leaves the entry not ready. *)
defineNotReady(sc, name) ==
  IF Len(sc) = 0
  THEN [scopes |-> sc, threw |-> TRUE]
  ELSE [scopes |-> ScopeSet(sc, name, FALSE), threw |-> FALSE]

define(sc, name) ==
  IF Len(sc) = 0
  THEN [scopes |-> sc, threw |-> TRUE]
  ELSE [scopes |-> ScopeSet(sc, name, TRUE), threw |-> FALSE]

(* declare looking the name up in every scope of the stack. *)
declareAnyScope(sc, name) ==
  [scopes |-> ScopeSet(sc, name, FALSE),
   errs |-> IF \E i \in DOMAIN sc : name \in DOMAIN sc[i] THEN {ErrDuplicate} ELSE {},
   threw |-> FALSE]

declare(sc, name) ==
  IF Len(sc) = 0
  THEN [scopes |-> sc, errs |-> {}, threw |-> TRUE]
  ELSE [scopes |-> ScopeSet(sc, name, FALSE),
        errs |-> IF name \in DOMAIN innerScope(sc) THEN {ErrDuplicate} ELSE {},
        threw |-> FALSE]

(* The loop of resolveLocal running from the outermost scope inward. *)
FindScopeOutermost(sc, i, name) ==
  LET at == {j \in 1..i : name \in DOMAIN sc[j]}
  IN IF at = {} THEN 0 ELSE CHOOSE j \in at : \A k \in at : j <= k

(* The loop of resolveLocal: the largest i with name in scopes[i], 0 if none
   (i counts from 1; the code's index is i - 1). *)
RECURSIVE FindScope(_, _, _)
FindScope(sc, i, name) ==
  IF i = 0 THEN 0
  ELSE IF name \in DOMAIN sc[i] THEN i
  ELSE FindScope(sc, i - 1, name)

(* resolveLocal registering scopes.length - i instead of scopes.length - 1 - i. *)
resolveLocalOneMore(sc, fs, op, name, errs) ==
  LET i == FindScope(sc, Len(sc), name)
      g == EnvGet(fs, 1, name)
  IN IF i # 0 THEN Rec(op, name, errs, Len(sc) - i + 1, FALSE, Len(sc))
     ELSE IF g.threw THEN Rec(op, name, errs, NoDepth, TRUE, Len(sc))
     ELSE IF g.value = Undefined
     THEN Rec(op, name, errs \cup {ErrUndefined}, NoDepth, FALSE, Len(sc))
     ELSE Rec(op, name, errs, NoDepth, FALSE, Len(sc))

resolveLocal(sc, fs, op, name, errs) ==
  LET i == FindScope(sc, Len(sc), name)
      g == EnvGet(fs, 1, name)
  IN IF i # 0 THEN Rec(op, name, errs, Len(sc) - i, FALSE, Len(sc))
     ELSE IF g.threw THEN Rec(op, name, errs, NoDepth, TRUE, Len(sc))
     ELSE IF g.value = Undefined
     THEN Rec(op, name, errs \cup {ErrUndefined}, NoDepth, FALSE, Len(sc))
     ELSE Rec(op, name, errs, NoDepth, FALSE, Len(sc))

(* visitVariableExpr testing the entry with `!` instead of `=== false`. *)
visitVariableExprNotTrue(sc, fs, name) ==
  resolveLocal(sc, fs, "variable", name,
    IF Len(sc) # 0 /\ ~(name \in DOMAIN innerScope(sc) /\ innerScope(sc)[name] = TRUE)
    THEN {ErrSelfInit} ELSE {})

visitVariableExpr(sc, fs, name) ==
  resolveLocal(sc, fs, "variable", name,
    IF Len(sc) # 0 /\ name \in DOMAIN innerScope(sc) /\ innerScope(sc)[name] = FALSE
    THEN {ErrSelfInit} ELSE {})

visitThisExpr(sc, fs, cc) ==
  IF cc = "none"
  THEN Rec("this", "this", {ErrThis}, NoDepth, FALSE, Len(sc))
  ELSE resolveLocal(sc, fs, "this", "this", {})

(* Expressions: [k, name, sub], sub the sub-expressions in source order. *)
Literal == [k |-> "literal", name |-> "", sub |-> <<>>]
Variable(n) == [k |-> "variable", name |-> n, sub |-> <<>>]
This == [k |-> "this", name |-> "this", sub |-> <<>>]
AssignExpr(n, v) == [k |-> "assign", name |-> n, sub |-> <<v>>]
Binary(l, r) == [k |-> "binary", name |-> "", sub |-> <<l, r>>]
Call(c, args) == [k |-> "call", name |-> "", sub |-> <<c>> \o args]
SetExpr(o, n, v) == [k |-> "set", name |-> n, sub |-> <<o, v>>]
NoExpr == [k |-> "absent", name |-> "", sub |-> <<>>]

(* resolve(expr): the call log of the visit, cut at the first exception. *)
RECURSIVE ResolveExpr(_, _, _, _)
RECURSIVE ResolveAll(_, _, _, _)
ResolveExpr(e, sc, fs, cc) ==
  CASE e.k = "variable" -> <<visitVariableExpr(sc, fs, e.name)>>
    [] e.k = "this" -> <<visitThisExpr(sc, fs, cc)>>
    [] e.k = "assign" ->
         LET v == ResolveExpr(e.sub[1], sc, fs, cc) IN
         IF Threw(v) THEN v
         ELSE v \o <<resolveLocal(sc, fs, "assign", e.name, {})>>
    [] e.k = "set" -> ResolveAll(<<e.sub[2], e.sub[1]>>, sc, fs, cc)
    [] e.k \in {"binary", "logical", "unary", "call", "grouping", "get"} ->
         ResolveAll(e.sub, sc, fs, cc)
    [] OTHER -> <<>>

ResolveAll(es, sc, fs, cc) ==
  IF es = <<>> THEN <<>>
  ELSE LET h == ResolveExpr(Head(es), sc, fs, cc) IN
       IF Threw(h) THEN h ELSE h \o ResolveAll(Tail(es), sc, fs, cc)

Messages(t) == UNION {t[i].errs : i \in DOMAIN t}

(* The expressions the program is drawn from. *)
(* ... of expression statements *)
Exprs ==
  {Literal, This, Variable("toString")}
  \cup {Call(Variable(n), <<>>) : n \in DeclNames}
  \cup {AssignExpr(n, Literal) : n \in DeclNames}
  \cup {Binary(This, Variable("a")), SetExpr(This, "a", Variable("b"))}
(* ... of the optional initializer of a Let statement *)
Inits ==
  {NoExpr, This} \cup {Variable(n) : n \in Lexemes}
  \cup {Binary(Variable("b"), Variable("a")), AssignExpr("a", Literal)}

(* The parameter lists the program is drawn from. *)
ParamLists == {<<>>, <<"a">>, <<"a", "a">>, <<"a", "b">>}

(* An open visitor call that holds statements: kind, the enclosingFunction or
   enclosingClass it saved, and for if/while the branches still to resolve. *)
Kont(kind, saved, left) == [kind |-> kind, saved |-> saved, left |-> left]

Top(k) == k[Len(k)]
Pop(k) == SubSeq(k, 1, Len(k) - 1)

(* Return from resolving a statement into visitIfStmt / visitWhileStmt: the
   next branch is resolved, or the handler returns in turn. *)
RECURSIVE Unwind(_)
Unwind(k) ==
  IF k = <<>> THEN k
  ELSE IF Top(k).kind \notin {"if", "while"} THEN k
  ELSE IF Top(k).left > 1 THEN [k EXCEPT ![Len(k)].left = Top(k).left - 1]
  ELSE Unwind(Pop(k))

(* The Resolver is about to resolve a statement. *)
AtStatement ==
  /\ ~threw
  /\ IF kont = <<>> THEN TRUE ELSE Top(kont).kind \in {"block", "function", "if", "while"}

Handler(op, name, errs) == Rec(op, name, errs, NoDepth, FALSE, Len(scopes))

LexDeclare(lex, name) == [lex EXCEPT ![Len(lex)] = lex[Len(lex)] \cup {name}]

(* The step of a statement that holds no statement: its call log t. *)
Simple(t) ==
  /\ trace' = t
  /\ threw' = Threw(t)
  /\ kont' = IF Threw(t) THEN kont ELSE Unwind(kont)
  /\ UNCHANGED <<currentFunction, currentClass>>

visitExpressionStmt(e) ==
  /\ \E t \in {<<Handler("visitExpressionStmt", "", {})>>
                 \o ResolveExpr(e, scopes, frames, currentClass)} : Simple(t)
  /\ UNCHANGED <<scopes, lexNames>>

VisitExpressionStmt ==
  /\ AtStatement
  /\ \E e \in Exprs : visitExpressionStmt(e)

VisitPrintStmt ==
  /\ AtStatement
  /\ \E e \in {NoExpr, Variable("a")} :
       \E t \in {<<Handler("visitPrintStmt", "", {})>>
                 \o ResolveExpr(e, scopes, frames, currentClass)} : Simple(t)
  /\ UNCHANGED <<scopes, lexNames>>

VisitReturnStmt ==
  /\ AtStatement
  /\ \E e \in {NoExpr, Variable("b")} :
       \E t \in {<<Handler("visitReturnStmt", "return",
                           IF currentFunction = "none" THEN {ErrReturn} ELSE {})>>
                 \o ResolveExpr(e, scopes, frames, currentClass)} : Simple(t)
  /\ UNCHANGED <<scopes, lexNames>>

visitLetStmt(name, init) ==
  \E d \in {declare(scopes, name)} :
  \E ti \in {ResolveExpr(init, d.scopes, frames, currentClass)} :
     /\ Simple(<<Handler("visitLetStmt", name, {}),
                 Rec("declare", name, d.errs, NoDepth, d.threw, Len(scopes))>> \o ti)
     /\ scopes' = IF Threw(ti) THEN d.scopes ELSE define(d.scopes, name).scopes
     /\ lexNames' = LexDeclare(lexNames, name)

VisitLetStmt ==
  /\ AtStatement
  /\ \E name \in DeclNames, init \in Inits : visitLetStmt(name, init)

VisitIfStmt ==
  /\ AtStatement
  /\ Len(kont) < MaxKont
  /\ \E cond \in {Variable("a")}, branches \in 1..2 :
       \E t \in {<<Handler("visitIfStmt", "", {})>>
                 \o ResolveExpr(cond, scopes, frames, currentClass)} :
          /\ trace' = t
                  /\ threw' = Threw(t)
          /\ kont' = IF Threw(t) THEN kont ELSE Append(kont, Kont("if", "", branches))
  /\ UNCHANGED <<scopes, lexNames, currentFunction, currentClass>>

VisitWhileStmt ==
  /\ AtStatement
  /\ Len(kont) < MaxKont
  /\ \E cond \in {Variable("b")} :
       \E t \in {<<Handler("visitWhileStmt", "", {})>>
                 \o ResolveExpr(cond, scopes, frames, currentClass)} :
          /\ trace' = t
                  /\ threw' = Threw(t)
          /\ kont' = IF Threw(t) THEN kont ELSE Append(kont, Kont("while", "", 1))
  /\ UNCHANGED <<scopes, lexNames, currentFunction, currentClass>>

VisitBlockStmt ==
  /\ AtStatement
  /\ Len(kont) < MaxKont /\ Len(scopes) < MaxScopes
  /\ scopes' = beginScope(scopes)
  /\ lexNames' = Append(lexNames, {})
  /\ kont' = Append(kont, Kont("block", "", 0))
  /\ trace' = <<Handler("visitBlockStmt", "", {})>>
  /\ UNCHANGED <<currentFunction, currentClass, threw>>

VisitBlockStmtEnd ==
  /\ ~threw /\ kont # <<>> /\ Top(kont).kind = "block"
  /\ scopes' = endScope(scopes)
  /\ lexNames' = Pop(lexNames)
  /\ kont' = Unwind(Pop(kont))
  /\ trace' = <<Handler("endScope", "", {})>>
  /\ UNCHANGED <<currentFunction, currentClass, threw>>

(* The parameter loop of resolveFunction with define alone. *)
RECURSIVE DeclareParamsDefineOnly(_, _)
DeclareParamsDefineOnly(sc, params) ==
  IF params = <<>> THEN [scopes |-> sc, log |-> <<>>]
  ELSE LET r == DeclareParamsDefineOnly(define(sc, Head(params)).scopes, Tail(params))
       IN [scopes |-> r.scopes,
           log |-> <<Rec("declare", Head(params), {}, NoDepth, FALSE, Len(sc))>> \o r.log]

(* The parameter loop of resolveFunction: declare and define each one. *)
RECURSIVE DeclareParams(_, _)
DeclareParams(sc, params) ==
  IF params = <<>> THEN [scopes |-> sc, log |-> <<>>]
  ELSE LET d == declare(sc, Head(params))
           r == DeclareParams(define(d.scopes, Head(params)).scopes, Tail(params))
       IN [scopes |-> r.scopes,
           log |-> <<Rec("declare", Head(params), d.errs, NoDepth, d.threw, Len(sc))>> \o r.log]

(* resolveFunction marking every body as a plain function's. *)
ResolveFunctionBeginAsFunction(sc, params, type, log, lex) ==
  LET r == DeclareParams(beginScope(sc), params) IN
  /\ currentFunction' = "function"
  /\ scopes' = r.scopes
  /\ kont' = Append(kont, Kont("function", currentFunction, 0))
  /\ lexNames' = Append(lex, {params[i] : i \in DOMAIN params})
  /\ trace' = log \o r.log
  /\ UNCHANGED <<currentClass, threw>>

(* resolveFunction up to the resolution of the body. *)
ResolveFunctionBegin(sc, params, type, log, lex) ==
  LET r == DeclareParams(beginScope(sc), params) IN
  /\ currentFunction' = type
  /\ scopes' = r.scopes
  /\ kont' = Append(kont, Kont("function", currentFunction, 0))
  /\ lexNames' = Append(lex, {params[i] : i \in DOMAIN params})
  /\ trace' = log \o r.log
  /\ UNCHANGED <<currentClass, threw>>

visitFunctionStmt(name, params) ==
  LET d == declare(scopes, name) IN
  ResolveFunctionBegin(define(d.scopes, name).scopes, params, "function",
    <<Handler("visitFunctionStmt", name, {}),
      Rec("declare", name, d.errs, NoDepth, d.threw, Len(scopes))>>,
    LexDeclare(lexNames, name))

VisitFunctionStmt ==
  /\ AtStatement
  /\ Len(kont) < MaxKont /\ Len(scopes) < MaxScopes
  /\ \E name \in DeclNames, params \in ParamLists : visitFunctionStmt(name, params)

(* One turn of the method loop of visitClassStmt. *)
ResolveMethod ==
  /\ ~threw /\ kont # <<>> /\ Top(kont).kind = "class"
  /\ Len(kont) < MaxKont /\ Len(scopes) < MaxScopes
  /\ \E params \in ParamLists :
       ResolveFunctionBegin(scopes, params, "method",
         <<Handler("resolveFunction", "", {})>>, lexNames)

(* resolveFunction resetting currentFunction to 'none' instead of restoring it. *)
ResolveFunctionEndNoRestore ==
  /\ ~threw /\ kont # <<>> /\ Top(kont).kind = "function"
  /\ scopes' = endScope(scopes)
  /\ currentFunction' = "none"
  /\ lexNames' = Pop(lexNames)
  /\ kont' = IF Pop(kont) # <<>> /\ Top(Pop(kont)).kind = "class"
             THEN Pop(kont) ELSE Unwind(Pop(kont))
  /\ trace' = <<Handler("endScope", "", {})>>
  /\ UNCHANGED <<currentClass, threw>>

(* resolveFunction after the resolution of the body. *)
ResolveFunctionEnd ==
  /\ ~threw /\ kont # <<>> /\ Top(kont).kind = "function"
  /\ scopes' = endScope(scopes)
  /\ currentFunction' = Top(kont).saved
  /\ lexNames' = Pop(lexNames)
  /\ kont' = IF Pop(kont) # <<>> /\ Top(Pop(kont)).kind = "class"
             THEN Pop(kont) ELSE Unwind(Pop(kont))
  /\ trace' = <<Handler("endScope", "", {})>>
  /\ UNCHANGED <<currentClass, threw>>

VisitClassStmt ==
  /\ AtStatement
  /\ Len(kont) < MaxKont /\ Len(scopes) < MaxScopes
  /\ \E name \in DeclNames :
       LET d == declare(scopes, name)
           log == <<Handler("visitClassStmt", name, {}),
                    Rec("declare", name, d.errs, NoDepth, d.threw, Len(scopes))>>
       IN /\ currentClass' = "class"
          /\ scopes' = ScopeSet(beginScope(define(d.scopes, name).scopes), "this", TRUE)
          /\ kont' = Append(kont, Kont("class", currentClass, 0))
          /\ lexNames' = Append(LexDeclare(lexNames, name), {})
          /\ trace' = log
  /\ UNCHANGED <<currentFunction, threw>>

(* visitClassStmt leaving currentClass at 'class' when it returns. *)
VisitClassStmtEndNoRestore ==
  /\ ~threw /\ kont # <<>> /\ Top(kont).kind = "class"
  /\ scopes' = endScope(scopes)
  /\ lexNames' = Pop(lexNames)
  /\ kont' = Unwind(Pop(kont))
  /\ trace' = <<Handler("endScope", "", {})>>
  /\ UNCHANGED <<currentClass, currentFunction, threw>>

VisitClassStmtEnd ==
  /\ ~threw /\ kont # <<>> /\ Top(kont).kind = "class"
  /\ scopes' = endScope(scopes)
  /\ currentClass' = Top(kont).saved
  /\ lexNames' = Pop(lexNames)
  /\ kont' = Unwind(Pop(kont))
  /\ trace' = <<Handler("endScope", "", {})>>
  /\ UNCHANGED <<currentFunction, threw>>

----------------------------------------------------------------------------
(* Interpreter (spec sections 3, 4.1 and 4.3: the chain of frames it builds and the
   lookups it makes with the binding distances the Resolver registered) *)

MaxBody == 1        \* variable accesses and declarations in a function body

NoClosures == [k \in {} |-> 0]
NoDecl == [name |-> "", params |-> <<>>, ops |-> <<>>]

InterpreterInit ==
  /\ env = 1
  /\ scopeFrame = <<1>>
  /\ closures = NoClosures
  /\ decl = NoDecl
  /\ lookups = <<>>

(* ancestor(d): the frame d links outward; 0 if the chain is shorter. *)
RECURSIVE Ancestor(_, _, _)
Ancestor(fs, e, d) ==
  IF e = 0 \/ d = 0 THEN e ELSE Ancestor(fs, fs[e].enclosing, d - 1)

(* The innermost open lexical scope whose text has declared name so far. *)
LexScope(lex, name) ==
  LET at == {j \in DOMAIN lex : name \in lex[j]}
  IN IF at = {} THEN 0 ELSE CHOOSE j \in at : \A k \in at : k <= j

(* What a statement makes the Interpreter do, in evaluation order: the
   variable accesses of its expressions as the Resolver logged them, then the
   declaration or the call. lex is the frame of the declaring lexical scope
   (0: the frame the call of the enclosing function will make; the globals
   when no scope declares the name). *)
IsAccess(r) == r.op \in {"variable", "assign"}

Access(r, lex, sf) ==
  [op |-> r.op, name |-> r.name, depth |-> r.depth, nargs |-> 0,
   lex |-> IF LexScope(lex, r.name) = 0 THEN 1 ELSE sf[LexScope(lex, r.name)]]

RECURSIVE Accesses(_, _, _)
Accesses(t, lex, sf) ==
  IF t = <<>> THEN <<>>
  ELSE (IF IsAccess(Head(t)) THEN <<Access(Head(t), lex, sf)>> ELSE <<>>)
       \o Accesses(Tail(t), lex, sf)

LetOp(name) == [op |-> "let", name |-> name, depth |-> NoDepth, nargs |-> 0, lex |-> 0]

(* The call of the function the last access of the statement read. *)
CallOps(acc, nargs) ==
  IF acc = <<>> THEN <<>>
  ELSE SubSeq(acc, 1, Len(acc) - 1)
       \o <<[acc[Len(acc)] EXCEPT !.op = "call", !.nargs = nargs]>>

(* A lookup: the frame reached by walking the registered distance (the
   globals without an entry), the frame in which Environment.get's walk from
   the current Environment finds the name, and the frame of the lexical
   scope that declares it. *)
Lookup(fs, e, o) ==
  LET d == IF o.depth = NoDepth THEN 1 ELSE Ancestor(fs, e, o.depth)
      w == EnvGet(fs, e, o.name).frame
  IN [name |-> o.name, entry |-> o.depth # NoDepth,
      byDistance |-> d, byWalk |-> w,
      lexical |-> IF o.lex = 0 THEN e ELSE o.lex,
      bound |-> d # 0 /\ o.name \in DOMAIN fs[d].values,
      walkWithin |-> w # 0 /\ d # 0 /\ InChain(fs, w, d)]

RECURSIVE BindParams(_, _, _)
BindParams(fs, e, params) ==
  IF params = <<>> THEN fs
  ELSE BindParams(EnvDefine(fs, e, Head(params), "v1"), e, Tail(params))

(* Executing a list of operations in Environment e. A call makes a frame
   whose enclosing frame is the closure's, runs the body in it and leaves it
   to the garbage collector: no closure of this model captures it. *)
RECURSIVE Exec(_, _, _, _)
Exec(fs, e, ops, cl) ==
  IF ops = <<>> THEN [frames |-> fs, lookups |-> <<>>]
  ELSE
    LET o == Head(ops)
        l == Lookup(fs, e, o)
        f == cl[<<l.byDistance, o.name>>]
        called == /\ o.op = "call"
                  /\ <<l.byDistance, o.name>> \in DOMAIN cl
                  /\ Len(f.params) = o.nargs
        body == Exec(BindParams(NewEnvironment(fs, f.env), Len(fs) + 1, f.params),
                     Len(fs) + 1, f.ops, cl)
        fs1 == CASE o.op = "let" -> EnvDefine(fs, e, o.name, "v1")
                 [] o.op = "assign" /\ o.depth = NoDepth ->
                      EnvAssign(fs, 1, o.name, "v1").frames
                 [] o.op = "assign" /\ l.byDistance # 0 ->
                      EnvDefine(fs, l.byDistance, o.name, "v1")
                 [] called -> SubSeq(body.frames, 1, Len(fs))
                 [] OTHER -> fs
        rest == Exec(fs1, e, Tail(ops), cl)
    IN [frames |-> rest.frames,
        lookups |-> (IF o.op = "let" THEN <<>> ELSE <<l>>)
                    \o (IF called THEN body.lookups ELSE <<>>)
                    \o rest.lookups]

(* The Interpreter runs only a program the Resolver accepted. *)
Running == ~hadError /\ ~threw

(* The statement the Resolver has just walked: reported, it stops the run;
   inside a function declaration it joins the body; otherwise it executes. *)
Interpret(ops) ==
  /\ hadError' = (Messages(trace') # {})
  /\ IF Messages(trace') # {} \/ threw'
     THEN /\ lookups' = <<>>
          /\ UNCHANGED <<frames, decl>>
     ELSE IF decl # NoDecl
     THEN /\ Len(decl.ops) + Len(ops) <= MaxBody
          /\ decl' = [decl EXCEPT !.ops = decl.ops \o ops]
          /\ lookups' = <<>>
          /\ UNCHANGED frames
     ELSE \E r \in {Exec(frames, env, ops, closures)} :
            /\ frames' = r.frames
            /\ lookups' = r.lookups
            /\ UNCHANGED decl
  /\ UNCHANGED <<env, scopeFrame, closures, envOut>>

(* The programs of SpecRun: variables, assignments, calls, let and function
   declarations, blocks. *)
FunNames == {"b"}
RunExprs == {Variable("a"), Variable("b"), AssignExpr("a", Literal)}
RunCalls == {Call(Variable(n), args) : n \in FunNames, args \in {<<>>, <<Literal>>}}
RunInits == {NoExpr, Variable("a")}
RunParams == {<<>>, <<"a">>}

RunExpressionStmt ==
  /\ Running /\ AtStatement
  /\ \E e \in RunExprs :
       /\ visitExpressionStmt(e)
       /\ Interpret(Accesses(trace', lexNames, scopeFrame))

RunCallStmt ==
  /\ Running /\ AtStatement /\ decl = NoDecl
  /\ \E e \in RunCalls :
       /\ visitExpressionStmt(e)
       /\ Interpret(CallOps(Accesses(trace', lexNames, scopeFrame), Len(e.sub) - 1))

RunLetStmt ==
  /\ Running /\ AtStatement
  /\ \E name \in DeclNames, init \in RunInits :
       /\ visitLetStmt(name, init)
       /\ Interpret(Accesses(trace', lexNames, scopeFrame) \o <<LetOp(name)>>)

RunBlockStmt ==
  /\ Running /\ decl = NoDecl
  /\ VisitBlockStmt
  /\ frames' = NewEnvironment(frames, env)
  /\ env' = Len(frames) + 1
  /\ scopeFrame' = Append(scopeFrame, Len(frames) + 1)
  /\ lookups' = <<>>
  /\ UNCHANGED <<closures, decl, hadError, envOut>>

(* The block's frame becomes unreachable, and the closures bound in it. *)
RunBlockStmtEnd ==
  /\ Running
  /\ VisitBlockStmtEnd
  /\ env' = frames[env].enclosing
  /\ frames' = SubSeq(frames, 1, Len(frames) - 1)
  /\ closures' = [k \in {k \in DOMAIN closures : k[1] # env} |-> closures[k]]
  /\ scopeFrame' = Pop(scopeFrame)
  /\ lookups' = <<>>
  /\ UNCHANGED <<decl, hadError, envOut>>

RunFunctionStmt ==
  /\ Running /\ decl = NoDecl /\ AtStatement
  /\ Len(kont) < MaxKont /\ Len(scopes) < MaxScopes
  /\ \E name \in FunNames, params \in RunParams :
       /\ visitFunctionStmt(name, params)
       /\ decl' = [name |-> name, params |-> params, ops |-> <<>>]
  /\ hadError' = (Messages(trace') # {})
  /\ scopeFrame' = Append(scopeFrame, 0)
  /\ lookups' = <<>>
  /\ UNCHANGED <<frames, env, closures, envOut>>

(* The declaration executes: the name is bound to a closure over env. *)
RunFunctionStmtEnd ==
  /\ Running /\ decl # NoDecl
  /\ ResolveFunctionEnd
  /\ frames' = EnvDefine(frames, env, decl.name, "fn")
  /\ closures' = (<<env, decl.name>> :> [env |-> env, params |-> decl.params,
                                         ops |-> decl.ops]) @@ closures
  /\ decl' = NoDecl
  /\ scopeFrame' = Pop(scopeFrame)
  /\ lookups' = <<>>
  /\ UNCHANGED <<env, hadError, envOut>>

----------------------------------------------------------------------------
(* REPL (src/src/repl.ts); Lox.run after spec sections 2, 6 and 7 *)

MaxLines == 3       \* lines typed in a session

(* The lines typed, as token lexemes. *)
ReplLines ==
  {<<"1", ";">>, <<"let", "a", "=", "1", ";">>, <<"a", ";">>,
   <<"this", ";">>, <<"a", "(", ")", ";">>}

(* The statement the scanner and parser make of an input; the newline that
   ends the input is white space. *)
ParseLine(input) ==
  LET text == IF input # <<>> /\ input[Len(input)] = "\n"
              THEN SubSeq(input, 1, Len(input) - 1) ELSE input
  IN CASE text = <<"let", "a", "=", "1", ";">> ->
            [k |-> "let", name |-> "a", e |-> Literal]
       [] text = <<"a", ";">> -> [k |-> "expression", name |-> "", e |-> Variable("a")]
       [] text = <<"this", ";">> -> [k |-> "expression", name |-> "", e |-> This]
       [] text = <<"a", "(", ")", ";">> ->
            [k |-> "expression", name |-> "", e |-> Call(Variable("a"), <<>>)]
       [] OTHER -> [k |-> "expression", name |-> "", e |-> Literal]

(* Lox.run(input): a new Resolver resolves the statement against
   interpreter.globals; a static error skips the execution; a runtime error
   is reported and ends the run; an exception of Resolver.resolve is caught
   by nothing. The outcome, the static-error flag and the globals after. *)
LoxRun(input, fs, flag) ==
  LET st == ParseLine(input)
      d == declare(<<EmptyScope>>, st.name)
      t == IF st.k = "let"
           THEN <<Rec("declare", st.name, d.errs, NoDepth, d.threw, 1)>>
                \o ResolveExpr(st.e, d.scopes, fs, "none")
           ELSE ResolveExpr(st.e, <<EmptyScope>>, fs, "none")
  IN IF Threw(t)
     THEN [out |-> "exception", hadError |-> flag \/ Messages(t) # {}, frames |-> fs]
     ELSE IF Messages(t) # {}
     THEN [out |-> "static error", hadError |-> TRUE, frames |-> fs]
     ELSE IF flag
     THEN [out |-> "skipped", hadError |-> TRUE, frames |-> fs]
     ELSE IF st.k = "let"
     THEN [out |-> "ok", hadError |-> flag, frames |-> EnvDefine(fs, 1, st.name, "v1")]
     ELSE IF st.e.k = "call"
     THEN [out |-> "runtime error", hadError |-> flag, frames |-> fs]
     ELSE [out |-> "ok", hadError |-> flag, frames |-> fs]

Event(ev, input, flag, out) == [ev |-> ev, input |-> input, flag |-> flag, out |-> out]

ReplInit ==
  /\ arrived = <<>>
  /\ handled = 0
  /\ events = <<>>

(* The user types a line. *)
TypeLine ==
  /\ Len(arrived) < MaxLines
  /\ \E line \in ReplLines : arrived' = Append(arrived, line)
  /\ UNCHANGED <<frames, hadError, threw, handled, events>>

(* rl.on('line', ...): the handler of the next line event, run to its end
   or to the exception that leaves it; an exception out of a listener ends
   the process. *)
LineHandler ==
  /\ ~threw
  /\ handled < Len(arrived)
  /\ \E input \in {arrived[handled + 1] \o <<"\n">>} :
     \E r \in {LoxRun(input, frames, hadError)} :
       /\ handled' = handled + 1
       /\ frames' = r.frames
       /\ threw' = (r.out = "exception")
       /\ hadError' = IF r.out = "exception" THEN r.hadError ELSE FALSE
       /\ events' = events \o <<Event("run", input, hadError, r.out)>>
                    \o (IF r.out = "exception" THEN <<>>
                        ELSE <<Event("setError", <<>>, FALSE, ""),
                               Event("prompt", <<>>, FALSE, "")>>)
  /\ UNCHANGED arrived

----------------------------------------------------------------------------
(* Specifications *)

(* interpreter.globals when the Resolver is constructed: a fresh session, or
   a session whose earlier runs left `a` holding undefined and `b` a value. *)
FreshGlobals == NewEnvironment(<<>>, 0)
SessionGlobals == EnvDefine(EnvDefine(FreshGlobals, 1, "a", Undefined), 1, "b", "v1")

ResolverInit ==
  /\ hadError = FALSE
  /\ scopes = <<EmptyScope>>
  /\ currentFunction = "none"
  /\ currentClass = "none"
  /\ kont = <<>>
  /\ lexNames = <<{}>>
  /\ trace = <<>>
  /\ threw = FALSE

InitEnv ==
  /\ EnvInit
  /\ ResolverInit
  /\ InterpreterInit
  /\ ReplInit

NextEnv ==
  \/ Construct /\ UNCHANGED <<resVars, hadError, intVars, replVars>>
  \/ Define /\ UNCHANGED <<resVars, hadError, intVars, replVars>>
  \/ Get /\ UNCHANGED <<resVars, hadError, intVars, replVars>>
  \/ Assign /\ UNCHANGED <<resVars, hadError, intVars, replVars>>

SpecEnv == InitEnv /\ [][NextEnv]_vars

InitRes ==
  /\ frames \in {FreshGlobals, SessionGlobals}
  /\ envOut = NoCall
  /\ ResolverInit
  /\ InterpreterInit
  /\ ReplInit

NextRes ==
  \/ VisitExpressionStmt /\ UNCHANGED <<envVars, hadError, intVars, replVars>>
  \/ VisitPrintStmt /\ UNCHANGED <<envVars, hadError, intVars, replVars>>
  \/ VisitReturnStmt /\ UNCHANGED <<envVars, hadError, intVars, replVars>>
  \/ VisitLetStmt /\ UNCHANGED <<envVars, hadError, intVars, replVars>>
  \/ VisitIfStmt /\ UNCHANGED <<envVars, hadError, intVars, replVars>>
  \/ VisitWhileStmt /\ UNCHANGED <<envVars, hadError, intVars, replVars>>
  \/ VisitBlockStmt /\ UNCHANGED <<envVars, hadError, intVars, replVars>>
  \/ VisitBlockStmtEnd /\ UNCHANGED <<envVars, hadError, intVars, replVars>>
  \/ VisitFunctionStmt /\ UNCHANGED <<envVars, hadError, intVars, replVars>>
  \/ ResolveMethod /\ UNCHANGED <<envVars, hadError, intVars, replVars>>
  \/ ResolveFunctionEnd /\ UNCHANGED <<envVars, hadError, intVars, replVars>>
  \/ VisitClassStmt /\ UNCHANGED <<envVars, hadError, intVars, replVars>>
  \/ VisitClassStmtEnd /\ UNCHANGED <<envVars, hadError, intVars, replVars>>

SpecRes == InitRes /\ [][NextRes]_vars

InitRun ==
  /\ frames \in {FreshGlobals, SessionGlobals}
  /\ envOut = NoCall
  /\ ResolverInit
  /\ InterpreterInit
  /\ ReplInit

NextRun ==
  \/ RunExpressionStmt /\ UNCHANGED replVars
  \/ RunCallStmt /\ UNCHANGED replVars
  \/ RunLetStmt /\ UNCHANGED replVars
  \/ RunBlockStmt /\ UNCHANGED replVars
  \/ RunBlockStmtEnd /\ UNCHANGED replVars
  \/ RunFunctionStmt /\ UNCHANGED replVars
  \/ RunFunctionStmtEnd /\ UNCHANGED replVars

SpecRun == InitRun /\ [][NextRun]_vars

(* initRepl: the first prompt. *)
InitRepl ==
  /\ frames = FreshGlobals
  /\ envOut = NoCall
  /\ ResolverInit
  /\ InterpreterInit
  /\ arrived = <<>>
  /\ handled = 0
  /\ events = <<Event("prompt", <<>>, FALSE, "")>>

NextRepl ==
  \/ TypeLine /\ UNCHANGED replIdle
  \/ LineHandler /\ UNCHANGED replIdle

SpecRepl == InitRepl /\ [][NextRepl]_vars

----------------------------------------------------------------------------
(* Properties of the Resolver, checked under SpecRes *)

IsStep(op) == trace # <<>> /\ trace[1].op = op

(* The program text encloses the current position in a function or method
   body / in a class declaration. *)
InsideFunction == \E k \in DOMAIN kont : kont[k].kind = "function"
InsideClass == \E k \in DOMAIN kont : kont[k].kind = "class"

(* The entry of name n in the innermost scope when the expressions of the
   last step were resolved: a Let statement resolves its initializer between
   declare and define, every other statement leaves the scope alone. *)
EntryAtVisit(n) ==
  IF IsStep("visitLetStmt") /\ trace[1].name = n THEN "unready"
  ELSE IF n \notin DOMAIN innerScope(scopes) THEN "absent"
  ELSE IF innerScope(scopes)[n] THEN "ready" ELSE "unready"

(* C3: inside a block, function body or method body, every read of the
   variable a Let statement is declaring, resolved in its initializer, is
   reported as 'Cannot read local variable in its own initializer', whatever
   the enclosing scopes hold; and that error is reported for no read of a name
   whose innermost-scope entry is ready or absent. *)
C3_SelfInitializerReported ==
  \A i \in DOMAIN trace :
    trace[i].op = "variable" =>
      /\ (IsStep("visitLetStmt") /\ trace[1].name = trace[i].name /\ Len(scopes) > 1)
           => ErrSelfInit \in trace[i].errs
      /\ ErrSelfInit \in trace[i].errs
           => EntryAtVisit(trace[i].name) \notin {"ready", "absent"}

(* `let a = 1; { let a = b + a; }`-like: the read of a in a block's Let of a,
   with a ready in the global scope, is reported. *)
C3_Witness ==
  /\ Len(scopes) = 2
  /\ "a" \in DOMAIN scopes[1] /\ scopes[1]["a"]
  /\ IsStep("visitLetStmt") /\ trace[1].name = "a"
  /\ \E i \in DOMAIN trace :
       trace[i].op = "variable" /\ trace[i].name = "a" /\ ErrSelfInit \in trace[i].errs

(* C4: `let a = a;` at the top level is not reported as a self-reference in
   an initializer. *)
C4_TopLevelSelfInitializerExempt ==
  (IsStep("visitLetStmt") /\ Len(scopes) = 1) =>
    \A i \in DOMAIN trace :
      (trace[i].op = "variable" /\ trace[i].name = trace[1].name)
        => ErrSelfInit \notin trace[i].errs

(* C5: every call of declare reports the duplicate-declaration error exactly
   when the program text has already declared the name in the innermost open
   lexical scope; names of enclosing scopes and of scopes closed earlier do
   not count. *)
C5_DuplicateExactlyInInnermostScope ==
  [][\A i \in DOMAIN trace' :
       trace'[i].op = "declare" =>
         LET k == trace'[i].at
             earlier == {trace'[j].name : j \in {j \in 1..(i - 1) :
                            trace'[j].op = "declare" /\ trace'[j].at = k}}
             lexical == IF k = Len(lexNames) THEN lexNames[k] ELSE {}
         IN (ErrDuplicate \in trace'[i].errs) <=> (trace'[i].name \in lexical \cup earlier)
    ]_vars

(* A Let inside a block redeclares a name of that block and is reported,
   while the enclosing scope holds the other name only. *)
C5_Witness ==
  /\ Len(scopes) = 2
  /\ IsStep("visitLetStmt") /\ trace[1].name = "a"
  /\ ErrDuplicate \in trace[2].errs
  /\ lexNames[1] = {"b"}

(* C6: a Return statement is reported as 'Cannot return from top-level code'
   exactly when no function or method body encloses it. *)
C6_ReturnReportedExactlyOutsideFunctions ==
  IsStep("visitReturnStmt") =>
    ((ErrReturn \in trace[1].errs) <=> ~InsideFunction)

(* A return in the first branch of an if inside a function: not reported. *)
C6_Witness ==
  /\ IsStep("visitReturnStmt") /\ trace[1].errs = {}
  /\ Len(kont) = 2 /\ kont[1].kind = "function" /\ kont[2].kind = "if"

(* The scopes the program text opens inside the nearest enclosing class scope. *)
ScopesInsideClass ==
  LET c == CHOOSE k \in DOMAIN kont :
             kont[k].kind = "class" /\ \A j \in DOMAIN kont : kont[j].kind = "class" => j <= k
  IN Cardinality({k \in DOMAIN kont : k > c /\ kont[k].kind \in {"block", "function", "class"}})

(* C7: a This expression is reported exactly when no class declaration
   encloses it, and then no distance is registered; when it is not reported
   a distance is registered, the number of scopes opened inside the nearest
   enclosing class scope. *)
C7_ThisReportedExactlyOutsideClasses ==
  \A i \in DOMAIN trace :
    trace[i].op = "this" =>
      /\ (ErrThis \in trace[i].errs) <=> ~InsideClass
      /\ ~InsideClass => trace[i].depth = NoDepth
      /\ InsideClass => (~trace[i].threw /\ trace[i].depth = ScopesInsideClass)

(* `this` read in a method body: registered at distance 1. *)
C7_Witness ==
  /\ \E i \in DOMAIN trace : trace[i].op = "this" /\ trace[i].depth = 1
  /\ Len(kont) = 2 /\ kont[1].kind = "class" /\ kont[2].kind = "function"

(* C8: a Variable or Assign whose name no open scope declares and the global
   Environment does not bind is reported ('Undefined variable'), registers no
   distance and returns normally. *)
C8_UnknownNameReportedWithoutException ==
  \A i \in DOMAIN trace :
    (/\ trace[i].op \in {"variable", "assign"}
     /\ \A k \in DOMAIN lexNames : trace[i].name \notin lexNames[k]
     /\ trace[i].name \notin DOMAIN frames[1].values)
      => (ErrUndefined \in trace[i].errs /\ trace[i].depth = NoDepth /\ ~trace[i].threw)

(* C9: resolution never aborts: no step ends with an exception leaving
   Resolver.resolve, so the statements after an error site are still visited. *)
C9_ResolutionNeverAborts == ~threw

(* C10: in a fresh session, inside the body of `fn a()` declared at the top
   level, a call of a itself or of b (a sibling the program declares after a)
   produces neither a static error nor an exception. *)
C10_SelfAndLaterSiblingResolveCleanly ==
  (/\ frames = FreshGlobals
   /\ kont = <<Kont("function", "none", 0)>>
   /\ lexNames = <<{"a"}, {}>>
   /\ IsStep("visitExpressionStmt")
   /\ Len(trace) = 2 /\ trace[2].op = "variable" /\ trace[2].name \in {"a", "b"})
    => (trace[2].errs = {} /\ ~trace[2].threw)

(* The open visitor calls that began a scope and have not ended it. *)
OpenScopeCalls == {k \in DOMAIN kont : kont[k].kind \in {"block", "function", "class"}}

(* C14: the scope stack holds the global scope of the constructor plus one
   scope per open block, function or class visit, so every return from a
   visit leaves the stack as deep as the call found it and the stack is never
   empty; a step writes only the innermost scope or scopes it pushed, so the
   scopes below, the global scope at the bottom included, stay in place. *)
C14_ScopeStackDiscipline ==
  [][/\ Len(scopes') = 1 + Cardinality(OpenScopeCalls')
     /\ Len(scopes) >= 1 /\ Len(scopes') >= 1
     /\ \A i \in 1..Len(scopes') :
          i < Len(scopes) => scopes'[i] = scopes[i]
     /\ Len(kont') < Len(kont) => Len(scopes') <= Len(scopes)
    ]_vars

(* A visit that opened a scope has returned to the top level: the stack is
   back to the global scope alone, which kept the names declared in it. *)
C14_Witness ==
  /\ IsStep("endScope") /\ kont = <<>> /\ ~threw
  /\ Len(scopes) = 1
  /\ DOMAIN scopes[1] # {}

(* The markers the program text calls for at the current position: the kind
   of the innermost function or method whose body is open, and whether a
   class declaration is open. *)
OpenFunctions == {k \in DOMAIN kont : kont[k].kind = "function"}

InnermostFunction == CHOOSE k \in OpenFunctions : \A j \in OpenFunctions : j <= k

TextFunction ==
  IF OpenFunctions = {} THEN "none"
  ELSE IF InnermostFunction > 1 /\ kont[InnermostFunction - 1].kind = "class"
  THEN "method" ELSE "function"

TextClass == IF InsideClass THEN "class" ELSE "none"

(* C15: currentFunction and currentClass always are what the open
   declarations call for: 'method' and 'class' in a method body, 'function'
   in a plain function body, both 'none' outside any declaration; so each
   Function or Class statement leaves them as it found them, at any nesting. *)
C15_MarkersFollowOpenDeclarations ==
  /\ currentFunction = TextFunction
  /\ currentClass = TextClass

(* A method of a top-level class has been resolved and the class is still
   open: currentFunction is back to 'none' while currentClass is 'class'. *)
C15_Witness ==
  /\ IsStep("endScope") /\ ~threw
  /\ kont # <<>> /\ Top(kont).kind = "class"
  /\ currentFunction = "none" /\ currentClass = "class"

(* A chain with one frame per open scope: frame i for scopes[i], the global
   frame first, each enclosed by the frame of the scope below. *)
ScopeChain(n) == [i \in 1..n |-> [values |-> NoValues, enclosing |-> i - 1]]

(* The scopes, of the r.at on the stack when r ran, that contain r's name. *)
ScopesWith(r) == {i \in 1..r.at : i <= Len(scopes) /\ r.name \in DOMAIN scopes[i]}

(* C16: every registered distance d is at least 0 and at most the number of
   scopes on the stack minus one, and is the number of scopes above the
   nearest scope that contains the name; walking d links from the innermost
   frame of a chain with one frame per open scope stays inside the chain and
   ends on the frame of that scope. *)
C16_DistanceWithinStackAndToNearestScope ==
  \A j \in DOMAIN trace :
    trace[j].depth # NoDepth =>
      LET r == trace[j]
          c == Chain(ScopeChain(r.at), r.at)
      IN /\ 0 <= r.depth /\ r.depth <= r.at - 1
         /\ ScopesWith(r) # {}
         /\ \A i \in ScopesWith(r) : i <= r.at - r.depth
         /\ r.at - r.depth \in ScopesWith(r)
         /\ r.depth + 1 <= Len(c)
         /\ c[r.depth + 1] \in ScopesWith(r)
         /\ \A i \in ScopesWith(r) : i <= c[r.depth + 1]

(* A name held by the global scope and by an enclosing block is referred to
   from a third scope: the distance is 1, to the nearer of the two. *)
C16_Witness ==
  \E j \in DOMAIN trace :
    /\ trace[j].depth = 1 /\ trace[j].at = 3
    /\ ScopesWith(trace[j]) = {1, 2}

(* C17: whenever the Resolver is about to resolve a statement every entry of
   every scope is true; an expression sees an entry that is not ready only in
   the initializer of a Let statement and only for the name of that Let, so
   function names, class names, parameters and `this` are never seen unready. *)
C17_UnreadyOnlyInsideOwnInitializer ==
  /\ ~threw => \A i \in DOMAIN scopes : \A n \in DOMAIN scopes[i] : scopes[i][n] = TRUE
  /\ \A j \in DOMAIN trace :
       ErrSelfInit \in trace[j].errs =>
         /\ trace[1].op = "visitLetStmt"
         /\ trace[j].name = trace[1].name

(* A Let with an initializer that reads variables has been resolved inside a
   function with parameters: the name is ready, and so is everything else. *)
C17_Witness ==
  /\ IsStep("visitLetStmt") /\ ~threw /\ Len(trace) > 2
  /\ InsideFunction
  /\ trace[1].name \in DOMAIN innerScope(scopes)
  /\ innerScope(scopes)[trace[1].name] = TRUE
  /\ Cardinality(DOMAIN innerScope(scopes)) >= 2

(* The declare calls for the parameters in the log of a step that entered
   a function or method. *)
ParamRecs(t) ==
  IF t = <<>> THEN <<>>
  ELSE IF t[1].op = "visitFunctionStmt" THEN SubSeq(t, 3, Len(t))
  ELSE IF t[1].op = "resolveFunction" THEN SubSeq(t, 2, Len(t))
  ELSE <<>>

ParamNames(t) == {ParamRecs(t)[j].name : j \in DOMAIN ParamRecs(t)}

IsLetStep(t) == t # <<>> /\ t[1].op = "visitLetStmt"

(* C18: parameters and body statements share one scope. A parameter is
   reported as a duplicate exactly when the same list names it earlier; a Let
   that is the first statement of the body is reported exactly when it
   reuses a parameter name; a Let in a block nested directly in the body is
   reported only for a name that block itself declared, never for a name of
   the function's scope. *)
C18_ParametersShareTheBodyScope ==
  [][/\ \A j \in DOMAIN ParamRecs(trace') :
          (ErrDuplicate \in ParamRecs(trace')[j].errs)
            <=> \E h \in 1..(j - 1) :
                  ParamRecs(trace')[h].name = ParamRecs(trace')[j].name
     /\ (IsLetStep(trace') /\ ParamRecs(trace) # <<>> /\ Len(kont) = Len(kont')
         /\ kont # <<>> /\ Top(kont).kind = "function") =>
          ((ErrDuplicate \in trace'[2].errs) <=> trace'[2].name \in ParamNames(trace))
     /\ (IsLetStep(trace') /\ Len(kont) >= 2 /\ Top(kont).kind = "block"
         /\ kont[Len(kont) - 1].kind = "function") =>
          ((ErrDuplicate \in trace'[2].errs)
             <=> trace'[2].name \in lexNames[Len(lexNames)])
    ]_vars

(* A function was entered whose parameter list names a twice: the second
   declare reported the duplicate. *)
C18_Witness ==
  /\ IsStep("visitFunctionStmt") /\ Len(trace) = 4
  /\ trace[3].name = trace[4].name
  /\ trace[3].errs = {} /\ trace[4].errs = {ErrDuplicate}

----------------------------------------------------------------------------
(* Properties of the Environment, checked under SpecEnv *)

(* The nearest frame of e's chain in which n is bound (an own property of
   its values; only define and assign create one); 0 if there is none. *)
NearestBinding(fs, e, n) ==
  LET c == Chain(fs, e)
      at == {i \in DOMAIN c : n \in DOMAIN fs[c[i]].values}
  IN IF at = {} THEN 0 ELSE c[CHOOSE i \in at : \A j \in at : i <= j]

(* C2: frames are shared by reference. An assign(n) issued from a frame whose
   chain passes through the frame O that binds n (the nearest one, since a
   nearer binding shadows O) changes n in O and in no other frame, a frame
   outside the chain included, and a get(n) issued afterwards from any frame
   that sees O's binding returns the assigned value. *)
C2_AssignChangesSharedOuterFrameOnly ==
  [][envOut'.op = "assign" =>
       LET e == envOut'.env
           n == envOut'.name
           o == NearestBinding(frames, e, n)
       IN o # 0 =>
            /\ ~envOut'.threw
            /\ frames'[o].values[n] = envOut'.value
            /\ \A f \in DOMAIN frames : f # o => frames'[f] = frames[f]
            /\ \A d \in DOMAIN frames :
                 NearestBinding(frames, d, n) = o =>
                   EnvGet(frames', d, n) =
                     [threw |-> FALSE, value |-> envOut'.value, frame |-> o]
    ]_vars

(* Frame h of gs differs from fs at most in its binding of n. *)
OnlyBindingChanged(fs, gs, h, n) ==
  /\ Len(gs) = Len(fs)
  /\ \A f \in DOMAIN fs :
       /\ gs[f].enclosing = fs[f].enclosing
       /\ f # h => gs[f] = fs[f]
       /\ f = h => /\ DOMAIN gs[f].values = DOMAIN fs[f].values \cup {n}
                   /\ \A m \in DOMAIN fs[f].values \ {n} :
                        gs[f].values[m] = fs[f].values[m]

(* C11: for every chain and every name, inherited names included, get
   returns the value of the nearest frame of the receiver's chain in which
   the name is bound, and throws exactly when no frame of the chain binds it. *)
C11_GetReturnsNearestBindingOrThrows ==
  envOut.op = "get" =>
    LET o == NearestBinding(frames, envOut.env, envOut.name)
    IN /\ envOut.threw <=> o = 0
       /\ o # 0 => /\ envOut.frame = o
                   /\ envOut.value = frames[o].values[envOut.name]

(* C12: assign never creates a binding. With no binding of the name in the
   chain it throws and every frame keeps its bound names and values;
   otherwise it overwrites the nearest binding and changes no other frame. *)
C12_AssignNeverCreatesBinding ==
  [][envOut'.op = "assign" =>
       LET o == NearestBinding(frames, envOut'.env, envOut'.name)
       IN /\ envOut'.threw <=> o = 0
          /\ o = 0 => frames' = frames
          /\ o # 0 => /\ OnlyBindingChanged(frames, frames', o, envOut'.name)
                      /\ DOMAIN frames'[o].values = DOMAIN frames[o].values
                      /\ frames'[o].values[envOut'.name] = envOut'.value
    ]_vars

(* C19: define changes only the receiver's binding of that one name,
   overwriting an existing one without error, and a get of the name issued
   next from the receiver, or from a descendant with no nearer binding of the
   name, returns the defined value even when an enclosing frame binds it. *)
C19_DefineBindsInReceiverOnly ==
  [][envOut'.op = "define" =>
       LET e == envOut'.env
           n == envOut'.name
       IN /\ ~envOut'.threw
          /\ OnlyBindingChanged(frames, frames', e, n)
          /\ frames'[e].values[n] = envOut'.value
          /\ \A d \in DOMAIN frames' :
               NearestBinding(frames', d, n) = e =>
                 EnvGet(frames', d, n) =
                   [threw |-> FALSE, value |-> envOut'.value, frame |-> e]
    ]_vars

----------------------------------------------------------------------------
(* Properties of Resolver and Interpreter together, checked under SpecRun *)

Registered(l) == l.entry

(* C1 as stated: in every Environment chain with one frame per open scope,
   the frame reached by walking the Resolver's registered distance and the
   frame in which Environment.get's outward name walk finds the name are the
   same frame. *)
C1_DistanceFrameIsNameWalkFrame ==
  \A i \in DOMAIN lookups :
    Registered(lookups[i]) => lookups[i].byDistance = lookups[i].byWalk

(* C1 amended: shadowing is static. The frame reached by walking the
   registered distance is the frame of the nearest lexically enclosing scope
   whose text had declared the name at the reference's position, and that
   frame binds the name, at every execution of the reference. Environment.get's
   name walk is not the same lookup: it stops in that frame or in a nearer
   frame of the chain. *)
C1_DistanceFrameIsLexicalDeclaration ==
  \A i \in DOMAIN lookups :
    /\ lookups[i].walkWithin
    /\ Registered(lookups[i]) =>
         /\ lookups[i].byDistance = lookups[i].lexical
         /\ lookups[i].bound

(* A function declared in a block reads a name of the globals, the block
   declared that name after the function, and the function is called: the
   distance leads two frames out to the lexical declaration while the name
   walk stops in the block's frame. *)
C1_Witness ==
  /\ Len(frames) = 2 /\ env = 2
  /\ \E i \in DOMAIN lookups :
       /\ Registered(lookups[i])
       /\ lookups[i].byDistance = 1 /\ lookups[i].lexical = 1
       /\ lookups[i].byWalk = 2

----------------------------------------------------------------------------
(* Properties of the REPL, checked under SpecRepl *)

Runs == SelectSeq(events, LAMBDA v : v.ev = "run")

(* C13: every line whose event was delivered has been run once, in arrival
   order, as line + "\n", with the had-error flag false when its run began;
   each run is followed by the reset of the flag and only then by the next
   prompt; and whatever the earlier lines reported, the handler stays able
   to run the lines that follow. *)
C13_EveryLineRunOnceFlagResetThenPrompt ==
  /\ ~threw
  /\ Len(Runs) = handled
  /\ \A i \in 1..handled :
       /\ Runs[i].input = arrived[i] \o <<"\n">>
       /\ Runs[i].flag = FALSE
       /\ Runs[i].out # "skipped"
  /\ Len(events) = 1 + 3 * handled
  /\ \A i \in 1..handled :
       /\ events[3 * i - 1].ev = "run"
       /\ events[3 * i].ev = "setError"
       /\ events[3 * i + 1].ev = "prompt"
  /\ hadError = FALSE

====
